---- MODULE Spec2Model ----
(***************************************************************************)
(* Model of lib/SIL/SILGen/SILGenLValue.cpp: the lvalue path components    *)
(* (VarComponent, FragileElementComponent, GetterSetterComponent), the     *)
(* SILGenLValue expression visitor that builds an LValue path, and the     *)
(* load/store of a path.                                                   *)
(*                                                                         *)
(* A Value is an integer: 0 is the null Value, n > 0 is the result of the  *)
(* n-th emitted instruction, n < 0 is a value computed outside this file   *)
(* (the rvalue being stored, a subscript index).  Assertions are modelled  *)
(* as enabled: a failed assert or llvm_unreachable aborts the compilation. *)
(***************************************************************************)
EXTENDS Integers, Sequences, FiniteSets, TLC

\* Bounds of the model.
MaxDepth == 3
MaxOps == 2
MaxVal == 2
MaxLen == 3

VARIABLES expr, path, gen, pc, ops, mem

vars == <<expr, path, gen, pc, ops, mem>>

Vals == 1..MaxVal

(***************************************************************************)
(* The emission state of SILGenFunction: the instructions emitted so far,  *)
(* the active cleanups, and the message of the assertion that aborted.     *)
(* An operator that models a C++ function returning a Value or a           *)
(* ManagedValue returns the emission state with that value in field v and, *)
(* for a ManagedValue, whether it carries a cleanup in field managed.      *)
(***************************************************************************)
NoAbort == ""

EmptyGen == [instrs |-> <<>>, cleanups |-> {}, abort |-> NoAbort, v |-> 0, managed |-> FALSE]

\* An instruction: its operands a and b are Values (or an index, or an accessor
\* kind), decl is the declaration it names, lv whether its result is an address.
Instr(op, decl, a, b, lv) == [op |-> op, decl |-> decl, a |-> a, b |-> b, lv |-> lv]

\* gen.B.create*: appends one instruction; its result is the new Value.
Emit(g, ins) ==
    IF g.abort # NoAbort THEN g
    ELSE [g EXCEPT !.instrs = Append(@, ins), !.v = Len(g.instrs) + 1, !.managed = FALSE]

\* assert(cond && msg): aborts the compilation when cond is false.
assert(g, cond, msg) ==
    IF g.abort = NoAbort /\ ~cond THEN [g EXCEPT !.abort = msg] ELSE g

\* v.getType()->is<LValueType>()
IsLValue(g, v) == v > 0 /\ v <= Len(g.instrs) /\ g.instrs[v].lv

createRetain(g, v) == Emit(g, Instr("retain", "", v, 0, FALSE))

createApply(g, callee, arg) == Emit(g, Instr("apply", "", callee, arg, FALSE))

createElementAddr(g, base, index) == Emit(g, Instr("element_addr", "", base, index, TRUE))

(***************************************************************************)
(* ManagedValue: a value with an optional cleanup.                         *)
(***************************************************************************)
\* ManagedValue(v): v, without a cleanup.
ManagedValue(g, v) == [g EXCEPT !.v = v, !.managed = FALSE]

\* gen.emitManagedRValueWithCleanup(v), v being the value just produced.
emitManagedRValueWithCleanup(g) ==
    IF g.abort # NoAbort THEN g
    ELSE [g EXCEPT !.cleanups = @ \cup {g.v}, !.managed = TRUE]

\* ManagedValue::forward: disables the cleanup and hands the value over.
forward(g) ==
    [g EXCEPT !.cleanups = IF g.managed THEN @ \ {g.v} ELSE @, !.managed = FALSE]

\* gen.emitConstantRef(e, SILConstant(decl, kind)): kind 1 = Getter, 2 = Setter.
emitConstantRef(g, decl, kind) == Emit(g, Instr("constant_ref", decl, kind, 0, FALSE))

\* gen.emitReferenceToDecl(e, decl).getUnmanagedValue()
emitReferenceToDecl(g, decl, isAddress) == Emit(g, Instr("ref_decl", decl, 0, 0, isAddress))

\* gen.emitGetProperty(loc, getter): the final, zero-argument application of
\* the forwarded thunk; its result is materialized and managed.
emitGetProperty(g) ==
    LET fw == forward(g)
    IN  emitManagedRValueWithCleanup(Emit(fw, Instr("apply", "", fw.v, 0, TRUE)))

(***************************************************************************)
(* Path components.                                                        *)
(***************************************************************************)
Component(kind, address, index, getter, setter, subscript) ==
    [kind |-> kind, address |-> address, index |-> index,
     getter |-> getter, setter |-> setter, subscript |-> subscript]

isPhysical(comp) == comp.kind \in {"Var", "FragileElement"}

\* VarComponent(Value address)
VarComponent(g, address) ==
    [g |-> assert(g, IsLValue(g, address), "var component value must be an address"),
     comp |-> Component("Var", address, 0, 0, 0, 0)]

\* FragileElementComponent(FragileElement element)
FragileElementComponent(g, index) ==
    [g |-> g, comp |-> Component("FragileElement", 0, index, 0, 0, 0)]

\* GetterSetterComponent(Value getter, Value setter, Value subscript = {})
GetterSetterComponent(g, getter, setter, subscript) ==
    [g |-> assert(g, getter # 0 /\ setter # 0,
                  "settable lvalue must have both getter and setter"),
     comp |-> Component("GetterSetter", 0, 0, getter, setter, subscript)]

\* VarComponent::offset
VarOffset(g, comp, base) ==
    ManagedValue(assert(g, base = 0, "var component must be root of lvalue path"),
                 comp.address)

\* FragileElementComponent::offset taking the address of element 0 whatever
\* the element (a variant the properties must tell from the original).
FragileOffset_FirstElement(g, comp, base) ==
    LET g1 == assert(g, base # 0, "invalid value for element base")
    IN  createElementAddr(assert(g1, IsLValue(g, base),
                                 "base for element component must be an address"),
                          base, 0)

\* FragileElementComponent::offset.  The type of the element address (the
\* element type with the qualifiers of the base) is kept as "an address".
FragileOffset(g, comp, base) ==
    LET g1 == assert(g, base # 0, "invalid value for element base")
    IN  createElementAddr(assert(g1, IsLValue(g, base),
                                 "base for element component must be an address"),
                          base, comp.index)

\* PhysicalPathComponent::offset, dispatched on the component
offset(g, comp, base) ==
    IF comp.kind = "Var" THEN VarOffset(g, comp, base) ELSE FragileOffset(g, comp, base)

\* partialApplyAccessor applying the base whether there is one or not
\* (a variant the properties must tell from the original).
partialApplyAccessor_AppliesNullBase(g, comp, accessor, base) ==
    LET g1 == createRetain(
                  assert(g, base = 0 \/ IsLValue(g, base),
                         "base of getter/setter component must be invalid or lvalue"),
                  accessor)
        appliedThis == emitManagedRValueWithCleanup(createApply(g1, accessor, base))
        fw == forward(appliedThis)
        appliedSubscript ==
            IF comp.subscript # 0
            THEN emitManagedRValueWithCleanup(createApply(fw, fw.v, comp.subscript))
            ELSE appliedThis
    IN  appliedSubscript

\* partialApplyAccessor applying the subscript to appliedThis without
\* forwarding it, so that its cleanup stays active (a variant the properties
\* must tell from the original).
partialApplyAccessor_NoForward(g, comp, accessor, base) ==
    LET g1 == createRetain(
                  assert(g, base = 0 \/ IsLValue(g, base),
                         "base of getter/setter component must be invalid or lvalue"),
                  accessor)
        appliedThis ==
            IF base # 0
            THEN emitManagedRValueWithCleanup(createApply(g1, accessor, base))
            ELSE ManagedValue(g1, accessor)
        appliedSubscript ==
            IF comp.subscript # 0
            THEN emitManagedRValueWithCleanup(
                     createApply(appliedThis, appliedThis.v, comp.subscript))
            ELSE appliedThis
    IN  appliedSubscript

\* GetterSetterComponent::partialApplyAccessor
partialApplyAccessor(g, comp, accessor, base) ==
    LET g1 == createRetain(
                  assert(g, base = 0 \/ IsLValue(g, base),
                         "base of getter/setter component must be invalid or lvalue"),
                  accessor)
        appliedThis ==
            IF base # 0
            THEN emitManagedRValueWithCleanup(createApply(g1, accessor, base))
            ELSE ManagedValue(g1, accessor)
        fw == forward(appliedThis)
        appliedSubscript ==
            IF comp.subscript # 0
            THEN emitManagedRValueWithCleanup(createApply(fw, fw.v, comp.subscript))
            ELSE appliedThis
    IN  appliedSubscript

\* storeRValue applying the getter (a variant the properties must tell from
\* the original).
storeRValue_AppliesGetter(g, comp, rvalue, base) ==
    LET fw == forward(partialApplyAccessor(g, comp, comp.getter, base))
    IN  createApply(fw, fw.v, rvalue)

\* GetterSetterComponent::storeRValue
storeRValue(g, comp, rvalue, base) ==
    LET fw == forward(partialApplyAccessor(g, comp, comp.setter, base))
    IN  createApply(fw, fw.v, rvalue)

\* loadAndMaterialize ignoring its base (a variant the properties must tell
\* from the original).
loadAndMaterialize_IgnoresBase(g, comp, base) ==
    emitGetProperty(partialApplyAccessor(g, comp, comp.getter, 0))

\* GetterSetterComponent::loadAndMaterialize
loadAndMaterialize(g, comp, base) ==
    emitGetProperty(partialApplyAccessor(g, comp, comp.getter, base))

(***************************************************************************)
(* Expressions.  An lvalue expression has one sub-expression at most, so   *)
(* it is a sequence of nodes: expr[1] is the innermost node and expr[n]    *)
(* the outermost; the sub-expression (base) of node n is node n - 1.       *)
(***************************************************************************)
Node(kind, decl, tag, index) == [kind |-> kind, decl |-> decl, tag |-> tag, index |-> index]

\* The declarations named by the expressions: a root binding and two members.
RootDecl == "a"

FieldDecl == "b"

PropDecl == "c"

\* A DeclRefExpr: of a stored variable, of a computed property (isProperty),
\* or of a declaration whose reference is not an address.
DeclRefNodes == {Node("DeclRef", RootDecl, t, 0) : t \in {"var", "property", "rvalue"}}

\* Nodes with a sub-expression.  A MemberRefExpr carries what TypeInfo answers
\* for its name: a fragile element (with its index) or not.  A RequalifyExpr
\* carries whether its type is an LValueType.  "Other" is any other Expr kind.
WrapperNodes ==
    {Node("MemberRef", FieldDecl, "fragile", 0),
     Node("MemberRef", PropDecl, "computed", 0),
     Node("TupleElement", "", "", 1),
     Node("AddressOf", "", "", 0),
     Node("Paren", "", "", 0),
     Node("Requalify", "", "lvalue", 0),
     Node("Requalify", "", "rvalue", 0),
     Node("Other", "", "", 0)}

RECURSIVE SeqsUpTo(_, _)
SeqsUpTo(S, n) ==
    IF n = 0 THEN {<<>>}
    ELSE LET shorter == SeqsUpTo(S, n - 1)
         IN  shorter \cup {Append(q, x) : q \in shorter, x \in S}

Exprs == {<<d>> \o w : d \in DeclRefNodes, w \in SeqsUpTo(WrapperNodes, MaxDepth)}

(***************************************************************************)
(* SILGenLValue: the visitor.  Each visit returns the emission state and   *)
(* the LValue built so far.                                                *)
(***************************************************************************)
\* LValue::add<T>(args...): c is the constructed component.
add(lv, c) ==
    [g |-> c.g, lv |-> IF c.g.abort # NoAbort THEN lv ELSE Append(lv, c.comp)]

\* SILGenLValue::visitExpr
visitExpr(g) == [g |-> assert(g, FALSE, "unimplemented lvalue expr"), lv |-> <<>>]

\* visitDeclRefExpr handing the setter where the getter goes (a variant the
\* properties must tell from the original).
visitDeclRefExpr_SwapsAccessors(g, node) ==
    IF node.tag = "property"
    THEN LET set == emitConstantRef(g, node.decl, 2)
             get == emitConstantRef(set, node.decl, 1)
         IN  add(<<>>, GetterSetterComponent(get, get.v, set.v, 0))
    ELSE LET address == emitReferenceToDecl(g, node.decl, node.tag = "var")
         IN  add(<<>>, VarComponent(
                           assert(address, IsLValue(address, address.v),
                                  "physical lvalue decl ref must evaluate to an address"),
                           address.v))

\* SILGenLValue::visitDeclRefExpr
visitDeclRefExpr(g, node) ==
    IF node.tag = "property"
    THEN LET get == emitConstantRef(g, node.decl, 1)
             set == emitConstantRef(get, node.decl, 2)
         IN  add(<<>>, GetterSetterComponent(set, get.v, set.v, 0))
    ELSE LET address == emitReferenceToDecl(g, node.decl, node.tag = "var")
         IN  add(<<>>, VarComponent(
                           assert(address, IsLValue(address, address.v),
                                  "physical lvalue decl ref must evaluate to an address"),
                           address.v))

\* visitMemberRefExpr with the test of hasFragileElement inverted (a variant
\* the properties must tell from the original).
visitMemberRefExpr_Inverted(lv, node) ==
    IF node.tag # "fragile"
    THEN add(lv.lv, FragileElementComponent(lv.g, node.index))
    ELSE LET get == emitConstantRef(lv.g, node.decl, 1)
             set == emitConstantRef(get, node.decl, 2)
         IN  add(lv.lv, GetterSetterComponent(set, get.v, set.v, 0))

\* SILGenLValue::visitMemberRefExpr; lv is the visited base.
visitMemberRefExpr(lv, node) ==
    IF node.tag = "fragile"
    THEN add(lv.lv, FragileElementComponent(lv.g, node.index))
    ELSE LET get == emitConstantRef(lv.g, node.decl, 1)
             set == emitConstantRef(get, node.decl, 2)
         IN  add(lv.lv, GetterSetterComponent(set, get.v, set.v, 0))

\* visitTupleElementExpr dropping the components of its base (a variant the
\* properties must tell from the original).
visitTupleElementExpr_DropsBase(lv, node) ==
    add(<<>>, FragileElementComponent(lv.g, node.index))

\* SILGenLValue::visitTupleElementExpr; lv is the visited base.
visitTupleElementExpr(lv, node) ==
    add(lv.lv, FragileElementComponent(lv.g, node.index))

\* SILGenLValue::visitAddressOfExpr; lv is the visited sub-expression.
visitAddressOfExpr(lv) == lv

\* visitParenExpr treating the parentheses as a one-element tuple (a variant
\* the properties must tell from the original).
visitParenExpr_AsTuple(lv) ==
    add(lv.lv, FragileElementComponent(lv.g, 0))

\* SILGenLValue::visitParenExpr; lv is the visited sub-expression.
visitParenExpr(lv) == lv

\* visitRequalifyExpr without its assertion (a variant the properties must
\* tell from the original).
visitRequalifyExpr_NoAssert(g, node) == g

\* The assertion of SILGenLValue::visitRequalifyExpr, made before the visit
\* of the sub-expression.
visitRequalifyExpr(g, node) ==
    assert(g, node.tag = "lvalue", "non-lvalue requalify in lvalue expression")

\* SILGenLValue::visit: dispatch on the kind of node n of e.
RECURSIVE visit(_, _, _)
visit(g, e, n) ==
    IF g.abort # NoAbort THEN [g |-> g, lv |-> <<>>]
    ELSE CASE e[n].kind = "DeclRef" -> visitDeclRefExpr(g, e[n])
           [] e[n].kind = "MemberRef" -> visitMemberRefExpr(visit(g, e, n - 1), e[n])
           [] e[n].kind = "TupleElement" -> visitTupleElementExpr(visit(g, e, n - 1), e[n])
           [] e[n].kind = "AddressOf" -> visitAddressOfExpr(visit(g, e, n - 1))
           [] e[n].kind = "Paren" -> visitParenExpr(visit(g, e, n - 1))
           [] e[n].kind = "Requalify" -> visit(visitRequalifyExpr(g, e[n]), e, n - 1)
           [] OTHER -> visitExpr(g)

(***************************************************************************)
(* Loading from and storing to a path.  Every component but the last is    *)
(* resolved to the base of the next one; the last one is read or written.  *)
(* The base handed to a component is the value in g.v.                     *)
(***************************************************************************)
\* Resolves one component that is not the last: its address, or the value
\* its getter returns.
resolve(g, comp) ==
    IF isPhysical(comp) THEN offset(g, comp, g.v) ELSE loadAndMaterialize(g, comp, g.v)

\* Resolves components i .. Len(lv) - 1.
RECURSIVE drill(_, _, _)
drill(g, lv, i) ==
    IF i >= Len(lv) THEN g ELSE drill(resolve(g, lv[i]), lv, i + 1)

\* The end of the scope of one load or store: every cleanup still active,
\* but the one of the value handed to the caller, emits its release.
RECURSIVE popCleanups(_, _)
popCleanups(g, keep) ==
    IF g.cleanups \ {keep} = {} \/ g.abort # NoAbort
    THEN [g EXCEPT !.cleanups = {}, !.v = keep]
    ELSE LET top == CHOOSE x \in g.cleanups \ {keep} : \A y \in g.cleanups \ {keep} : y <= x
         IN  popCleanups([Emit(g, Instr("release", "", top, 0, FALSE))
                              EXCEPT !.cleanups = @ \ {top}], keep)

\* The read of the last component, given its base in g.v.
loadLast(g, comp) ==
    IF isPhysical(comp)
    THEN LET addr == offset(g, comp, g.v)
         IN  Emit(addr, Instr("load", "", addr.v, 0, FALSE))
    ELSE loadAndMaterialize(g, comp, g.v)

\* The write of the last component, given its base in g.v.
storeLast(g, comp, rvalue) ==
    IF isPhysical(comp)
    THEN LET addr == offset(g, comp, g.v)
         IN  Emit(addr, Instr("store", "", addr.v, rvalue, FALSE))
    ELSE storeRValue(g, comp, rvalue, g.v)

\* load(path): the value loaded is in field v of the result.
load(g, lv) ==
    LET r == loadLast(drill(ManagedValue(g, 0), lv, 1), lv[Len(lv)])
    IN  popCleanups(r, r.v)

\* store(path, rvalue)
store(g, lv, rvalue) ==
    popCleanups(storeLast(drill(ManagedValue(g, 0), lv, 1), lv[Len(lv)], rvalue), 0)

(***************************************************************************)
(* The memory the emitted reads and writes act on.  The location an        *)
(* address Value denotes: the declaration (or temporary) it is rooted at   *)
(* and the element indices applied to it.                                  *)
(***************************************************************************)
RECURSIVE Location(_, _)
Location(instrs, v) ==
    IF v <= 0 \/ v > Len(instrs) THEN <<"null">>
    ELSE CASE instrs[v].op = "ref_decl" -> <<instrs[v].decl>>
           [] instrs[v].op = "element_addr" ->
                  Append(Location(instrs, instrs[v].a), instrs[v].b)
           [] OTHER -> <<"tmp", v>>

NoValue == 0

Read(m, loc) == IF loc \in DOMAIN m THEN m[loc] ELSE NoValue

Write(m, loc, val) == [l \in DOMAIN m \cup {loc} |-> IF l = loc THEN val ELSE m[l]]

\* An rvalue computed outside this file, as a Value.
RValue(val) == 0 - val

\* The value an index expression evaluates to.
IndexValue == 0 - (MaxVal + 1)

(***************************************************************************)
(* State machine.  expr is the expression being lowered, path the LValue   *)
(* built for it, gen the emission state, ops the loads and stores done on  *)
(* the path, mem the memory written by the emitted stores.                 *)
(***************************************************************************)
Op(kind, val, first, g, observed) ==
    [kind |-> kind, value |-> val, first |-> first, last |-> Len(g.instrs),
     res |-> g.v, observed |-> observed]

EmptyMem == [l \in {} |-> NoValue]

Init ==
    /\ expr \in Exprs
    /\ path = <<>>
    /\ gen = EmptyGen
    /\ pc = "visit"
    /\ ops = <<>>
    /\ mem = EmptyMem

\* buildPath: SILGenLValue().visit(expr)
Visit ==
    /\ pc = "visit"
    /\ \E r \in {visit(gen, expr, Len(expr))} :
         /\ gen' = r.g
         /\ path' = IF r.g.abort # NoAbort THEN <<>> ELSE r.lv
         /\ pc' = IF r.g.abort # NoAbort THEN "aborted" ELSE "built"
    /\ UNCHANGED <<expr, ops, mem>>

\* The location the last emitted instruction reads or writes.
Accessed(g) == Location(g.instrs, g.instrs[Len(g.instrs)].a)

Load ==
    /\ pc = "built"
    /\ Len(path) > 0
    /\ Len(ops) < MaxOps
    /\ \E g \in {load(gen, path)} :
         /\ gen' = g
         /\ pc' = IF g.abort = NoAbort THEN "built" ELSE "aborted"
         /\ ops' = IF g.abort # NoAbort THEN ops
                   ELSE Append(ops, Op("load", NoValue, Len(gen.instrs) + 1, g,
                                       IF isPhysical(path[Len(path)])
                                       THEN Read(mem, Accessed(g)) ELSE NoValue))
    /\ UNCHANGED <<expr, path, mem>>

Store ==
    /\ pc = "built"
    /\ Len(path) > 0
    /\ Len(ops) < MaxOps
    /\ \E val \in Vals :
         \E g \in {store(gen, path, RValue(val))} :
           /\ gen' = g
           /\ pc' = IF g.abort = NoAbort THEN "built" ELSE "aborted"
           /\ ops' = IF g.abort # NoAbort THEN ops
                     ELSE Append(ops, Op("store", val, Len(gen.instrs) + 1, g, NoValue))
           /\ mem' = IF g.abort = NoAbort /\ isPhysical(path[Len(path)])
                     THEN Write(mem, Accessed(g), val)
                     ELSE mem
    /\ UNCHANGED <<expr, path>>

Next == Visit \/ Load \/ Store

Spec == Init /\ [][Next]_vars

(***************************************************************************)
(* A second client of the components: a path put together component by     *)
(* component through LValue::add, with any receiver and subscript.         *)
(***************************************************************************)
InitAcc ==
    /\ expr = <<>>
    /\ path = <<>>
    /\ gen = EmptyGen
    /\ pc = "built"
    /\ ops = <<>>
    /\ mem = EmptyMem

CanAdd == pc = "built" /\ ops = <<>> /\ Len(path) < MaxLen

AddVarComponent ==
    /\ CanAdd
    /\ \E address \in {emitReferenceToDecl(gen, RootDecl, TRUE)} :
         \E r \in {add(path, VarComponent(address, address.v))} :
           gen' = r.g /\ path' = r.lv
    /\ UNCHANGED <<expr, pc, ops, mem>>

AddFragileElementComponent ==
    /\ CanAdd
    /\ \E index \in {0, 1} :
         \E r \in {add(path, FragileElementComponent(gen, index))} :
           gen' = r.g /\ path' = r.lv
    /\ UNCHANGED <<expr, pc, ops, mem>>

AddGetterSetterComponent ==
    /\ CanAdd
    /\ \E subscript \in {0, IndexValue} :
         \E get \in {emitConstantRef(gen, PropDecl, 1)} :
           \E set \in {emitConstantRef(get, PropDecl, 2)} :
             \E r \in {add(path, GetterSetterComponent(set, get.v, set.v, subscript))} :
               gen' = r.g /\ path' = r.lv
    /\ UNCHANGED <<expr, pc, ops, mem>>

NextAcc ==
    \/ AddVarComponent
    \/ AddFragileElementComponent
    \/ AddGetterSetterComponent
    \/ Load
    \/ Store

SpecAcc == InitAcc /\ [][NextAcc]_vars

(***************************************************************************)
(* Vocabulary of the properties.                                           *)
(***************************************************************************)
Kinds(p) == [i \in 1..Len(p) |-> p[i].kind]

\* A path whose first component accepts an absent base and that has no root
\* after the first position.
WellFormed(p) ==
    /\ Len(p) > 0
    /\ p[1].kind \in {"Var", "GetterSetter"}
    /\ \A i \in 2..Len(p) : p[i].kind \in {"FragileElement", "GetterSetter"}

\* The assertions the components make on the base they are handed.
BaseAssertions ==
    {"var component must be root of lvalue path",
     "invalid value for element base",
     "base for element component must be an address",
     "base of getter/setter component must be invalid or lvalue"}

\* The instructions one load or store emitted.
Seg(op) == op.first..op.last

\* The accessor an application chain starts from, and the arguments applied
\* to it, in order.
RECURSIVE AccessorOf(_, _)
AccessorOf(instrs, x) ==
    IF x > 0 /\ instrs[x].op = "apply" THEN AccessorOf(instrs, instrs[x].a) ELSE x

RECURSIVE ArgsOf(_, _)
ArgsOf(instrs, x) ==
    IF x > 0 /\ instrs[x].op = "apply"
    THEN ArgsOf(instrs, instrs[x].a) \o (IF instrs[x].b = 0 THEN <<>> ELSE <<instrs[x].b>>)
    ELSE <<>>

\* The applications of op that complete an invocation of accessor acc: no
\* other application of op applies their result.
Invocations(instrs, op, acc) ==
    {j \in Seg(op) : /\ instrs[j].op = "apply"
                     /\ AccessorOf(instrs, j) = acc
                     /\ \A k \in Seg(op) : ~(instrs[k].op = "apply" /\ instrs[k].a = j)}

\* The instructions of op with operation o and first operand x.
Uses(instrs, op, o, x) == {j \in Seg(op) : instrs[j].op = o /\ instrs[j].a = x}

\* The instructions of op with operation o.
Emitted(instrs, op, o) == {j \in Seg(op) : instrs[j].op = o}

\* The result of the component before the one whose first instruction is j:
\* the instruction before j, or the address of the root, which emits none.
Predecessor(op, j) == IF j = op.first THEN path[1].address ELSE j - 1

IsMemberChain(e) ==
    /\ e[1].kind = "DeclRef" /\ e[1].tag = "var"
    /\ \A i \in 2..Len(e) : e[i].kind = "MemberRef"

IsAccessorRef(g, v, decl, kind) ==
    /\ v \in 1..Len(g.instrs)
    /\ g.instrs[v] = Instr("constant_ref", decl, kind, 0, FALSE)

ABC ==
    <<Node("DeclRef", RootDecl, "var", 0),
      Node("MemberRef", FieldDecl, "fragile", 0),
      Node("MemberRef", PropDecl, "computed", 0)>>

IsPassThrough(node) == node.kind \in {"Paren", "AddressOf"}

Strip(e) == SelectSeq(e, LAMBDA node : ~IsPassThrough(node))

(***************************************************************************)
(* C6.  Parentheses and address-of markers, at any depth and anywhere in   *)
(* the base chain, change nothing: the path built for an expression, the   *)
(* instructions emitted while building it and the outcome are those of the *)
(* expression with every ParenExpr and AddressOfExpr removed.              *)
(***************************************************************************)
C6_PassThrough ==
    (pc # "visit" /\ ops = <<>>) =>
        LET r == visit(EmptyGen, Strip(expr), Len(Strip(expr))) IN
        /\ gen.abort = r.g.abort
        /\ gen.instrs = r.g.instrs
        /\ path = IF r.g.abort # NoAbort THEN <<>> ELSE r.lv

\* A path of several components built through nested markers in the base chain.
C6_Witness ==
    /\ pc = "built"
    /\ ops = <<>>
    /\ Len(path) >= 2
    /\ \E i \in 2..(Len(expr) - 1) :
         /\ expr[i].kind = "Paren"
         /\ expr[i + 1].kind = "AddressOf" \/ expr[i - 1].kind = "AddressOf"
    /\ Len(expr) > Len(Strip(expr)) + 1

Unsupported(node) ==
    \/ node.kind = "Other"
    \/ node.kind = "Requalify" /\ node.tag = "rvalue"
    \/ node.kind = "DeclRef" /\ node.tag = "rvalue"

BuildAssertions ==
    {"unimplemented lvalue expr",
     "non-lvalue requalify in lvalue expression",
     "physical lvalue decl ref must evaluate to an address"}

(***************************************************************************)
(* C7.  buildPath either returns a well-formed path or aborts and returns  *)
(* no path: it aborts exactly when the expression or an expression in its  *)
(* base chain is of an unsupported kind, is a RequalifyExpr whose type is  *)
(* not an lvalue type, or is a reference to a stored declaration that does *)
(* not evaluate to an address.                                             *)
(***************************************************************************)
C7_AbortOrPath ==
    pc # "visit" =>
        IF \E i \in 1..Len(expr) : Unsupported(expr[i])
        THEN pc = "aborted" /\ path = <<>> /\ gen.abort \in BuildAssertions /\ ops = <<>>
        ELSE pc = "built" /\ gen.abort = NoAbort /\ WellFormed(path)

\* An abort caused by a node deep in the base chain of supported nodes.
C7_Witness ==
    /\ pc = "aborted"
    /\ Len(expr) >= 3
    /\ Unsupported(expr[2])
    /\ \A i \in 3..Len(expr) : ~Unsupported(expr[i])
    /\ ~Unsupported(expr[1])

(***************************************************************************)
(* C10.  Every GetterSetter component of a path built by buildPath has no  *)
(* subscript and holds a getter and a setter reference, both emitted while *)
(* building, the getter first; so in a load or store of the path no index  *)
(* is applied and an accessor receives one application at most (of its     *)
(* receiver) before the final one.                                         *)
(***************************************************************************)
C10_NoSubscript ==
    pc = "built" =>
        /\ \A i \in 1..Len(path) :
             path[i].kind = "GetterSetter" =>
               /\ path[i].subscript = 0
               /\ path[i].getter > 0
               /\ path[i].setter = path[i].getter + 1
               /\ \A k \in 1..Len(ops) : path[i].setter < ops[k].first
               /\ gen.instrs[path[i].getter].op = "constant_ref"
               /\ gen.instrs[path[i].getter].a = 1
               /\ gen.instrs[path[i].setter].op = "constant_ref"
               /\ gen.instrs[path[i].setter].a = 2
        /\ \A j \in 1..Len(gen.instrs) :
             gen.instrs[j].op = "apply" =>
               /\ Len(ArgsOf(gen.instrs, gen.instrs[j].a)) <= 1
               /\ gen.instrs[j].b >= 0 => gen.instrs[j].b < j
               /\ gen.instrs[j].b # IndexValue

\* Two getter/setter components, one with a receiver, loaded and stored.
C10_Witness ==
    /\ pc = "built"
    /\ Len(ops) = MaxOps
    /\ \E k \in 1..Len(ops) : ops[k].kind = "load"
    /\ \E k \in 1..Len(ops) : ops[k].kind = "store"
    /\ Cardinality({i \in 1..Len(path) : path[i].kind = "GetterSetter"}) >= 2

\* v is what resolving component c of a path yields within op.
IsResultOf(instrs, op, v, c) ==
    CASE c.kind = "Var" -> v = c.address
      [] c.kind = "FragileElement" ->
             v \in Seg(op) /\ instrs[v].op = "element_addr" /\ instrs[v].b = c.index
      [] OTHER ->
             /\ v \in Seg(op) /\ instrs[v].op = "apply" /\ instrs[v].b = 0
             /\ AccessorOf(instrs, v) = c.getter

Touches(instrs, op, acc) ==
    \E j \in Seg(op) :
        \/ instrs[j].op = "apply" /\ AccessorOf(instrs, j) = acc
        \/ instrs[j].op = "retain" /\ instrs[j].a = acc

IsBareProperty(e) ==
    /\ e[1].kind = "DeclRef" /\ e[1].tag = "property"
    /\ \A i \in 2..Len(e) :
         IsPassThrough(e[i]) \/ (e[i].kind = "Requalify" /\ e[i].tag = "lvalue")

(***************************************************************************)
(* C4.  A reference to a computed property with no base builds a path of   *)
(* one GetterSetter component and no root; a load or store of it retains   *)
(* the accessor and applies it once, to the final argument: no receiver is *)
(* applied, and nothing is released.                                       *)
(***************************************************************************)
C4_BareProperty ==
    (pc # "visit" /\ IsBareProperty(expr)) =>
        /\ pc = "built"
        /\ path = <<Component("GetterSetter", 0, 0, 1, 2, 0)>>
        /\ \A k \in 1..Len(ops) :
             LET acc == IF ops[k].kind = "load" THEN 1 ELSE 2
                 arg == IF ops[k].kind = "load" THEN 0 ELSE RValue(ops[k].value)
             IN  /\ ops[k].last = ops[k].first + 1
                 /\ gen.instrs[ops[k].first] = Instr("retain", "", acc, 0, FALSE)
                 /\ gen.instrs[ops[k].last].op = "apply"
                 /\ gen.instrs[ops[k].last].a = acc
                 /\ gen.instrs[ops[k].last].b = arg

C4_Witness ==
    /\ pc = "built"
    /\ expr = <<Node("DeclRef", RootDecl, "property", 0)>>
    /\ Len(ops) = MaxOps
    /\ ops[1].kind = "store"
    /\ ops[Len(ops)].kind = "load"

IsIntermediate(ins) == ins.op = "apply" /\ (ins.b > 0 \/ ins.b = IndexValue)

Thunks(instrs, op) ==
    {instrs[j].a : j \in {i \in Seg(op) : instrs[i].op = "retain"}}
        \cup {j \in Seg(op) : IsIntermediate(instrs[j])}

Acquired(instrs, op, x) ==
    Cardinality(Uses(instrs, op, "retain", x))
        + (IF x \in Seg(op) /\ IsIntermediate(instrs[x]) THEN 1 ELSE 0)

Consumed(instrs, op, x) ==
    Cardinality(Uses(instrs, op, "apply", x)) + Cardinality(Uses(instrs, op, "release", x))

(***************************************************************************)
(* C5.  In one load or store, every thunk (a retained accessor, the result *)
(* of applying a receiver or a subscript) is acquired as often as it is    *)
(* consumed, by the application that applies it or by a release, and once; *)
(* and the applications number as many as the acquisitions: one retain per *)
(* final application, one intermediate per receiver or subscript applied.  *)
(***************************************************************************)
C5_AcquireReleaseBalance ==
    \A k \in 1..Len(ops) :
        /\ \A x \in Thunks(gen.instrs, ops[k]) :
             /\ Acquired(gen.instrs, ops[k], x) = 1
             /\ Consumed(gen.instrs, ops[k], x) = 1
        /\ Cardinality(Emitted(gen.instrs, ops[k], "apply"))
             = Cardinality(Thunks(gen.instrs, ops[k]))
        /\ \A j \in Seg(ops[k]) :
             gen.instrs[j].op = "apply" => gen.instrs[j].a \in Thunks(gen.instrs, ops[k])

\* A load through a getter/setter with receiver and subscript: three
\* applications in one invocation.
C5_Witness ==
    /\ pc = "built"
    /\ Len(ops) >= 1
    /\ \E k \in 1..Len(ops) :
         \E j \in Seg(ops[k]) :
            /\ gen.instrs[j].op = "apply"
            /\ Len(ArgsOf(gen.instrs, j)) = 2
            /\ gen.instrs[j].b = 0

\* The invocation of accessor acc after n instructions.
Invocation(n, acc, base, subscript, arg, lv) ==
    LET s1 == <<Instr("retain", "", acc, 0, FALSE)>>
        s2 == IF base # 0 THEN Append(s1, Instr("apply", "", acc, base, FALSE)) ELSE s1
        t2 == IF base # 0 THEN n + Len(s2) ELSE acc
        s3 == IF subscript # 0 THEN Append(s2, Instr("apply", "", t2, subscript, FALSE)) ELSE s2
        t3 == IF subscript # 0 THEN n + Len(s3) ELSE t2
    IN  Append(s3, Instr("apply", "", t3, arg, lv))

Access(op, addr) ==
    IF op.kind = "load" THEN Instr("load", "", addr, 0, FALSE)
    ELSE Instr("store", "", addr, RValue(op.value), FALSE)

\* The instructions there are once op has gone through components i.. of lv,
\* acc being those there were before and base the result of component i - 1.
RECURSIVE Expected(_, _, _, _, _)
Expected(acc, lv, i, base, op) ==
    LET c == lv[i]
        isLast == i = Len(lv)
        isSet == isLast /\ op.kind = "store"
        next == CASE c.kind = "Var" -> acc
                  [] c.kind = "FragileElement" ->
                         Append(acc, Instr("element_addr", "", base, c.index, TRUE))
                  [] OTHER ->
                         acc \o Invocation(Len(acc), IF isSet THEN c.setter ELSE c.getter,
                                           base, c.subscript,
                                           IF isSet THEN RValue(op.value) ELSE 0, ~isSet)
        result == IF c.kind = "Var" THEN c.address ELSE Len(next)
    IN  IF ~isLast THEN Expected(next, lv, i + 1, result, op)
        ELSE IF isPhysical(c) THEN Append(next, Access(op, result))
        ELSE next

AllPhysical(p) == Len(p) > 0 /\ \A i \in 1..Len(p) : isPhysical(p[i])

PathLocation(instrs, p) ==
    <<instrs[p[1].address].decl>> \o [i \in 1..(Len(p) - 1) |-> p[i + 1].index]

(***************************************************************************)
(* C9.  On a path of physical components only, a store emits one write and *)
(* a load one read, both to the location the root and the element indices  *)
(* of the path determine; so a load that follows a store of v observes v.  *)
(***************************************************************************)
C9_LoadAfterStore ==
    AllPhysical(path) =>
        /\ \A k \in 1..Len(ops) :
             /\ Cardinality(Emitted(gen.instrs, ops[k], "load")
                            \cup Emitted(gen.instrs, ops[k], "store")) = 1
             /\ gen.instrs[ops[k].last].op = ops[k].kind
             /\ Location(gen.instrs, gen.instrs[ops[k].last].a) = PathLocation(gen.instrs, path)
        /\ \A k \in 1..(Len(ops) - 1) :
             (ops[k].kind = "store" /\ ops[k + 1].kind = "load") =>
                 ops[k + 1].observed = ops[k].value

\* A store of a value followed by a load, through two fragile elements.
C9_Witness ==
    /\ pc = "built"
    /\ Kinds(path) = <<"Var", "FragileElement", "FragileElement">>
    /\ path[2].index # path[3].index
    /\ Len(ops) = MaxOps
    /\ ops[Len(ops) - 1].kind = "store"
    /\ ops[Len(ops)].kind = "load"
    /\ ops[Len(ops)].observed = MaxVal

====
